---- MODULE Spec2Model ----
(***************************************************************************)
(* Model of festival.py: the leave-plan generator, the workday-block       *)
(* calculator, the cost and score functions, the interactive prompting     *)
(* loops and the ranking done by main.                                     *)
(*                                                                         *)
(* Python floats are modelled as exact rationals extended with nan, inf    *)
(* and -inf (record kinds "fin", "nan", "inf", "ninf"); rounding is not    *)
(* modelled.  Input lines are sequences of one-character strings.          *)
(***************************************************************************)
EXTENDS Integers, Sequences, FiniteSets, TLC

VARIABLES pc, candidate_days, default_probs, idx, s, msg, p, P,
          alpha, beta, plans, scored, ret, best, leave, blocks

vars == <<pc, candidate_days, default_probs, idx, s, msg, p, P,
          alpha, beta, plans, scored, ret, best, leave, blocks>>

----------------------------------------------------------------------------
(* Float arithmetic as lines 30, 76, 78, 79, 114, 147 and 189 use it.      *)

Abs(x) == IF x < 0 THEN -x ELSE x

RECURSIVE GCD(_, _)
GCD(a, b) == IF b = 0 THEN a ELSE GCD(b, a % b)

Fin(n, d) ==
    LET g == GCD(Abs(n), Abs(d))
        sg == IF d < 0 THEN -1 ELSE 1
    IN  [kind |-> "fin", num |-> (sg * n) \div g, den |-> (sg * d) \div g]

NaN == [kind |-> "nan", num |-> 0, den |-> 1]
PosInf == [kind |-> "inf", num |-> 1, den |-> 1]
NegInf == [kind |-> "ninf", num |-> -1, den |-> 1]
Zero == Fin(0, 1)
One == Fin(1, 1)

FSign(a) == IF a.num > 0 THEN 1 ELSE IF a.num < 0 THEN -1 ELSE 0

FNeg(a) ==
    CASE a.kind = "nan" -> NaN
      [] a.kind = "inf" -> NegInf
      [] a.kind = "ninf" -> PosInf
      [] OTHER -> Fin(-a.num, a.den)

FAdd(a, b) ==
    CASE a.kind = "nan" \/ b.kind = "nan" -> NaN
      [] a.kind = "fin" /\ b.kind = "fin" ->
            Fin(a.num * b.den + b.num * a.den, a.den * b.den)
      [] a.kind = "fin" -> b
      [] b.kind = "fin" -> a
      [] a.kind = b.kind -> a
      [] OTHER -> NaN

FSub(a, b) == FAdd(a, FNeg(b))

FMul(a, b) ==
    CASE a.kind = "nan" \/ b.kind = "nan" -> NaN
      [] a.kind = "fin" /\ b.kind = "fin" -> Fin(a.num * b.num, a.den * b.den)
      [] FSign(a) * FSign(b) = 0 -> NaN
      [] FSign(a) * FSign(b) > 0 -> PosInf
      [] OTHER -> NegInf

(* Python's < and <= on floats: every comparison with nan is False.        *)
FLt(a, b) ==
    CASE a.kind = "nan" \/ b.kind = "nan" -> FALSE
      [] a.kind = "fin" /\ b.kind = "fin" -> a.num * b.den < b.num * a.den
      [] a.kind = "ninf" -> b.kind # "ninf"
      [] b.kind = "inf" -> a.kind # "inf"
      [] OTHER -> FALSE

FEq(a, b) == a.kind # "nan" /\ b.kind # "nan" /\ a = b

FLe(a, b) == FLt(a, b) \/ FEq(a, b)

(* Python's true division a / b: ZeroDivisionError when b == 0.            *)
FTrueDiv(a, b) ==
    CASE b.kind = "fin" /\ b.num = 0 ->
            [ok |-> FALSE, err |-> "ZeroDivisionError", val |-> NaN]
      [] a.kind = "nan" \/ b.kind = "nan" -> [ok |-> TRUE, err |-> "", val |-> NaN]
      [] a.kind = "fin" /\ b.kind = "fin" ->
            [ok |-> TRUE, err |-> "", val |-> Fin(a.num * b.den, a.den * b.num)]
      [] a.kind = "fin" -> [ok |-> TRUE, err |-> "", val |-> Zero]
      [] b.kind = "fin" ->
            [ok |-> TRUE, err |-> "",
             val |-> IF FSign(a) * FSign(b) > 0 THEN PosInf ELSE NegInf]
      [] OTHER -> [ok |-> TRUE, err |-> "", val |-> NaN]

RECURSIVE FPow(_, _)
FPow(a, e) == IF e = 0 THEN One ELSE FMul(a, FPow(a, e - 1))

RECURSIVE FSum(_)
FSum(xs) == IF xs = <<>> THEN Zero
            ELSE FAdd(FSum(SubSeq(xs, 1, Len(xs) - 1)), xs[Len(xs)])

Range(f) == {f[i] : i \in DOMAIN f}

----------------------------------------------------------------------------
(* Input text: str.strip, "/" in text, str.split("/", 1) and float(str).   *)

DigitChars == <<"0", "1", "2", "3", "4", "5", "6", "7", "8", "9">>

IsDigit(c) == \E i \in 1..Len(DigitChars) : DigitChars[i] = c

DigitVal(c) == (CHOOSE i \in 1..Len(DigitChars) : DigitChars[i] = c) - 1

RECURSIVE DigitsVal(_)
DigitsVal(ds) ==
    IF ds = <<>> THEN 0
    ELSE Len(DigitChars) * DigitsVal(SubSeq(ds, 1, Len(ds) - 1)) + DigitVal(ds[Len(ds)])

RECURSIVE Pow10(_)
Pow10(n) == IF n = 0 THEN 1 ELSE Len(DigitChars) * Pow10(n - 1)

IsSpace(c) == c = " "

RECURSIVE LStrip(_)
LStrip(t) == IF t # <<>> /\ IsSpace(Head(t)) THEN LStrip(Tail(t)) ELSE t

RECURSIVE RStrip(_)
RStrip(t) ==
    IF t # <<>> /\ IsSpace(t[Len(t)]) THEN RStrip(SubSeq(t, 1, Len(t) - 1)) ELSE t

Strip(t) == RStrip(LStrip(t))

(* Index of the first occurrence of c in t, 0 when there is none.          *)
IndexOf(t, c) ==
    IF \E i \in 1..Len(t) : t[i] = c
    THEN CHOOSE i \in 1..Len(t) : t[i] = c /\ \A j \in 1..(i - 1) : t[j] # c
    ELSE 0

ValueError == [ok |-> FALSE, err |-> "ValueError", val |-> NaN]

Ok(v) == [ok |-> TRUE, err |-> "", val |-> v]

(* float(text): surrounding blanks, an optional sign, then "nan", "inf"    *)
(* or decimal digits with at most one point; anything else is ValueError.  *)
PyFloat(t) ==
    LET u == Strip(t)
        signed == u # <<>> /\ u[1] \in {"+", "-"}
        neg == u # <<>> /\ u[1] = "-"
        body == IF signed THEN Tail(u) ELSE u
        dot == IndexOf(body, ".")
        ip == IF dot = 0 THEN body ELSE SubSeq(body, 1, dot - 1)
        fp == IF dot = 0 THEN <<>> ELSE SubSeq(body, dot + 1, Len(body))
        isnum == /\ \A i \in 1..Len(ip) : IsDigit(ip[i])
                 /\ \A i \in 1..Len(fp) : IsDigit(fp[i])
                 /\ Len(ip) + Len(fp) > 0
        mag == Fin(DigitsVal(ip) * Pow10(Len(fp)) + DigitsVal(fp), Pow10(Len(fp)))
    IN  CASE body = <<"n", "a", "n">> -> Ok(NaN)
          [] body = <<"i", "n", "f">> -> Ok(IF neg THEN NegInf ELSE PosInf)
          [] isnum -> Ok(IF neg THEN FNeg(mag) ELSE mag)
          [] OTHER -> ValueError

parse_probability(text0) ==
    LET text == Strip(text0)
        cut == IndexOf(text, "/")
        a == PyFloat(SubSeq(text, 1, cut - 1))
        b == PyFloat(SubSeq(text, cut + 1, Len(text)))
    IN  IF text = <<>> THEN ValueError
        ELSE IF cut # 0
             THEN IF ~a.ok THEN a
                  ELSE IF ~b.ok THEN b
                  ELSE FTrueDiv(a.val, b.val)
             ELSE PyFloat(text)

----------------------------------------------------------------------------
(* The pure functions w, work, score and generate_plans.                   *)

w_base == Fin(13, 10)

Max(a, b) == IF a > b THEN a ELSE b

FatigueFree == 5

(* Variant: the operands of the subtraction swapped.                      *)
wSwapped(n) == FPow(w_base, Max(FatigueFree - n, 0))

w(n) == FPow(w_base, Max(n - FatigueFree, 0))

base_work_days == (9..14) \cup (25..28)

RECURSIVE Sorted(_)
Sorted(S) ==
    IF S = {} THEN <<>>
    ELSE LET m == CHOOSE x \in S : \A y \in S : x <= y
         IN  <<m>> \o Sorted(S \ {m})

(* Variant: the append after the loop (line 58) is missing.                *)
RECURSIVE ScanNoFinalAppend(_, _, _, _, _)
ScanNoFinalAppend(days, i, start, prev, acc) ==
    IF i > Len(days) THEN acc
    ELSE IF days[i] = prev + 1
         THEN ScanNoFinalAppend(days, i + 1, start, days[i], acc)
         ELSE ScanNoFinalAppend(days, i + 1, days[i], days[i],
                                Append(acc, prev - start + 1))

(* The scan of lines 52-57 from position i on, with the loop's locals.     *)
RECURSIVE Scan(_, _, _, _, _)
Scan(days, i, start, prev, acc) ==
    IF i > Len(days) THEN Append(acc, prev - start + 1)
    ELSE IF days[i] = prev + 1
         THEN Scan(days, i + 1, start, days[i], acc)
         ELSE Scan(days, i + 1, days[i], days[i], Append(acc, prev - start + 1))

work(vacation_days) ==
    LET actual_work_days == Sorted(base_work_days \ vacation_days)
    IN  IF actual_work_days = <<>> THEN <<>>
        ELSE Scan(actual_work_days, 2, actual_work_days[1], actual_work_days[1], <<>>)

Fatigue(vacation_days) ==
    LET bl == work(Range(vacation_days))
    IN  FSum([i \in 1..Len(bl) |-> w(bl[i])])

Disturb(vacation_days, p_dict) ==
    FSum([i \in 1..Len(vacation_days) |-> FSub(One, p_dict[vacation_days[i]])])

(* Variant: the disturbance term subtracted.                               *)
TotalCostMinus(vacation_days, p_dict, a, b) ==
    FSub(FMul(a, Fatigue(vacation_days)), FMul(b, Disturb(vacation_days, p_dict)))

(* Variant: the two weights exchanged.                                     *)
TotalCostSwappedWeights(vacation_days, p_dict, a, b) ==
    FAdd(FMul(b, Fatigue(vacation_days)), FMul(a, Disturb(vacation_days, p_dict)))

TotalCost(vacation_days, p_dict, a, b) ==
    FAdd(FMul(a, Fatigue(vacation_days)), FMul(b, Disturb(vacation_days, p_dict)))

score(vacation_days, p_dict, a, b) ==
    IF \E i \in 1..Len(vacation_days) : vacation_days[i] \notin DOMAIN p_dict
    THEN [ok |-> FALSE, err |-> "KeyError", val |-> NaN]
    ELSE FTrueDiv(One, TotalCost(vacation_days, p_dict, a, b))

pre_days == <<12, 13, 14>>
post_days == <<24, 25, 26>>
total_vac == 3

(* Variant: pre_days[:k_pre], the first k_pre days instead of the last.    *)
RECURSIVE PlansFromFirstK(_)
PlansFromFirstK(k_pre) ==
    IF k_pre > total_vac THEN <<>>
    ELSE LET k_post == total_vac - k_pre
             pre_part == IF k_pre > 0 THEN SubSeq(pre_days, 1, k_pre) ELSE <<>>
             post_part == IF k_post > 0 THEN SubSeq(post_days, 1, k_post) ELSE <<>>
         IN  (IF k_pre > Len(pre_days) \/ k_post > Len(post_days)
              THEN <<>>
              ELSE <<pre_part \o post_part>>) \o PlansFromFirstK(k_pre + 1)

RECURSIVE PlansFrom(_)
PlansFrom(k_pre) ==
    IF k_pre > total_vac THEN <<>>
    ELSE LET k_post == total_vac - k_pre
             pre_part == IF k_pre > 0
                         THEN SubSeq(pre_days, Len(pre_days) - k_pre + 1, Len(pre_days))
                         ELSE <<>>
             post_part == IF k_post > 0 THEN SubSeq(post_days, 1, k_post) ELSE <<>>
         IN  (IF k_pre > Len(pre_days) \/ k_post > Len(post_days)
              THEN <<>>
              ELSE <<pre_part \o post_part>>) \o PlansFrom(k_pre + 1)

generate_plans == PlansFrom(0)

----------------------------------------------------------------------------
(* main's constants (lines 160-172) and the prompting loops.               *)

main_candidate_days == <<12, 13, 14, 24, 25, 26>>

main_default_probs ==
    (12 :> Fin(6, 31)) @@ (13 :> Fin(18, 31)) @@ (14 :> Fin(26, 31)) @@
    (24 :> Fin(18, 31)) @@ (25 :> Fin(14, 31)) @@ (26 :> Fin(1, 31))

Unset == [kind |-> "unset", num |-> 0, den |-> 1]

NoCall == [plan |-> <<>>, ok |-> TRUE, err |-> "", val |-> Unset]

EmptyDict == [d \in {} |-> Zero]

(* Variant: only the upper limit is tested.                                *)
InRangeNoLower(value) == FLe(value, One)

(* Line 147: the range test on a parsed value.                             *)
InRange(value) == FLe(Zero, value) /\ FLe(value, One)

(* Line 143: the value an empty input stores for day.                      *)
DefaultFor(day) ==
    IF day \in DOMAIN default_probs THEN default_probs[day] ELSE Zero

(* One pass of the while loop of lines 131-153 on the input line text:     *)
(* what is stored (if anything) and what is printed.                       *)
AskStep(day, text) ==
    LET s1 == Strip(text)
        r == parse_probability(s1)
    IN  IF s1 = <<>> THEN [store |-> TRUE, val |-> DefaultFor(day), msg |-> ""]
        ELSE IF ~r.ok THEN [store |-> FALSE, val |-> NaN, msg |-> "format"]
        ELSE IF ~InRange(r.val) THEN [store |-> FALSE, val |-> NaN, msg |-> "range"]
        ELSE [store |-> TRUE, val |-> r.val, msg |-> ""]

AskProbability(Texts) ==
    /\ pc = "ask_p"
    /\ idx <= Len(candidate_days)
    /\ \E text \in Texts :
          \E st \in {AskStep(candidate_days[idx], text)} :
              /\ s' = Strip(text)
              /\ msg' = st.msg
              /\ IF st.store
                 THEN p' = (candidate_days[idx] :> st.val) @@ p /\ idx' = idx + 1
                 ELSE UNCHANGED <<p, idx>>
    /\ UNCHANGED <<pc, candidate_days, default_probs, P, alpha, beta, plans,
                   scored, ret, best, leave, blocks>>

(* Line 155, and line 179 in the caller: the loop is over, p is returned.  *)
AskReturn(next) ==
    /\ pc = "ask_p"
    /\ idx > Len(candidate_days)
    /\ P' = p
    /\ pc' = next
    /\ s' = <<>>
    /\ msg' = ""
    /\ UNCHANGED <<candidate_days, default_probs, idx, p, alpha, beta, plans,
                   scored, ret, best, leave, blocks>>

(* Line 189: the test that rejects a weight.                               *)
WeightRejected(v) == FLe(v, Zero)

(* One pass of ask_weight's loop (lines 183-194) on the input line text.   *)
WeightStep(text, default) ==
    LET s1 == Strip(text)
        r == PyFloat(s1)
    IN  IF s1 = <<>> THEN [ret |-> TRUE, val |-> default, msg |-> ""]
        ELSE IF ~r.ok THEN [ret |-> FALSE, val |-> NaN, msg |-> "format"]
        ELSE IF WeightRejected(r.val) THEN [ret |-> FALSE, val |-> NaN, msg |-> "positive"]
        ELSE [ret |-> TRUE, val |-> r.val, msg |-> ""]

AskAlpha(Texts) ==
    /\ pc = "ask_alpha"
    /\ \E text \in Texts :
          \E st \in {WeightStep(text, One)} :
              IF st.ret
              THEN alpha' = st.val /\ pc' = "ask_beta" /\ s' = <<>> /\ msg' = ""
              ELSE s' = Strip(text) /\ msg' = st.msg /\ UNCHANGED <<alpha, pc>>
    /\ UNCHANGED <<candidate_days, default_probs, idx, p, P, beta, plans,
                   scored, ret, best, leave, blocks>>

AskBeta(Texts) ==
    /\ pc = "ask_beta"
    /\ \E text \in Texts :
          \E st \in {WeightStep(text, One)} :
              IF st.ret
              THEN beta' = st.val /\ pc' = "gen" /\ s' = <<>> /\ msg' = ""
              ELSE s' = Strip(text) /\ msg' = st.msg /\ UNCHANGED <<beta, pc>>
    /\ UNCHANGED <<candidate_days, default_probs, idx, p, P, alpha, plans,
                   scored, ret, best, leave, blocks>>

----------------------------------------------------------------------------
(* Lines 204-208: generate, score, sort, pick the first.                   *)

GeneratePlans ==
    /\ pc = "gen"
    /\ plans' = generate_plans
    /\ scored' = <<>>
    /\ pc' = "score"
    /\ UNCHANGED <<candidate_days, default_probs, idx, s, msg, p, P, alpha, beta,
                   ret, best, leave, blocks>>

(* One element of the list comprehension of line 205; an exception raised  *)
(* by score ends the program.                                              *)
ScorePlan ==
    /\ pc = "score"
    /\ Len(scored) < Len(plans)
    /\ \E r \in {score(plans[Len(scored) + 1], P, alpha, beta)} :
           /\ ret' = [plan |-> plans[Len(scored) + 1], ok |-> r.ok, err |-> r.err,
                      val |-> r.val]
           /\ IF r.ok
              THEN scored' = Append(scored, <<plans[Len(scored) + 1], r.val>>) /\ pc' = pc
              ELSE scored' = scored /\ pc' = "crashed"
    /\ UNCHANGED <<candidate_days, default_probs, idx, s, msg, p, P, alpha, beta,
                   plans, best, leave, blocks>>

Reverse(xs) == [i \in 1..Len(xs) |-> xs[Len(xs) + 1 - i]]

(* x goes in front of the first element whose key it is less than, else    *)
(* last: the stable insertion list.sort performs on a short list.          *)
InsertByKey(xs, x) ==
    LET before == {i \in 1..Len(xs) : FLt(x[2], xs[i][2])}
        k == IF before = {} THEN Len(xs) + 1
             ELSE CHOOSE i \in before : \A j \in before : i <= j
    IN  SubSeq(xs, 1, k - 1) \o <<x>> \o SubSeq(xs, k, Len(xs))

RECURSIVE SortAscending(_)
SortAscending(xs) ==
    IF xs = <<>> THEN <<>>
    ELSE InsertByKey(SortAscending(SubSeq(xs, 1, Len(xs) - 1)), xs[Len(xs)])

(* Variant: ascending sort, then reversed (equal keys change places).      *)
SortThenReverse(xs) == Reverse(SortAscending(xs))

(* list.sort(key=..., reverse=True): reverse, stable ascending sort,       *)
(* reverse again.                                                          *)
SortDescending(xs) == Reverse(SortAscending(Reverse(xs)))

Sort ==
    /\ pc = "score"
    /\ Len(scored) = Len(plans)
    /\ scored' = SortDescending(scored)
    /\ pc' = "report"
    /\ UNCHANGED <<candidate_days, default_probs, idx, s, msg, p, P, alpha, beta,
                   plans, ret, best, leave, blocks>>

Report ==
    /\ pc = "report"
    /\ IF scored = <<>>
       THEN best' = best /\ pc' = "crashed"
       ELSE best' = scored[1] /\ pc' = "done"
    /\ UNCHANGED <<candidate_days, default_probs, idx, s, msg, p, P, alpha, beta,
                   plans, scored, ret, leave, blocks>>

CallWork ==
    /\ pc = "work"
    /\ blocks' = work(leave)
    /\ pc' = "work_done"
    /\ UNCHANGED <<candidate_days, default_probs, idx, s, msg, p, P, alpha, beta,
                   plans, scored, ret, best, leave>>

----------------------------------------------------------------------------
(* Input lines the user may type.                                          *)

ProbTexts ==
    { <<>>, <<"x">>, <<"1", "/", "0">>, <<"0", "/", "1">>, <<"1">>, <<"2">>,
      <<"n", "a", "n">>, <<"-", "1">> }

WeightTexts ==
    { <<>>, <<" ">>, <<"x">>, <<"0">>, <<"-", "1">>, <<"2">>,
      <<"n", "a", "n">>, <<"i", "n", "f">> }

AskTexts ==
    { <<>>, <<" ">>, <<"x">>, <<"1", "/", "0">>, <<"0", "/", "1">>,
      <<" ", "1", ".", "0", " ">>, <<"3", "/", "2">>, <<"-", "1">>,
      <<"n", "a", "n">>, <<"1", "/", "x">>, <<"i", "n", "f", "/", "i", "n", "f">>,
      <<"1", "/", "2", "/", "2">>, <<".">>, <<"1", ".", "5">> }

----------------------------------------------------------------------------
(* The program: main from its first prompt to its report.                  *)

Init ==
    /\ pc = "ask_p"
    /\ candidate_days = main_candidate_days
    /\ default_probs = main_default_probs
    /\ idx = 1
    /\ s = <<>>
    /\ msg = ""
    /\ p = EmptyDict
    /\ P = EmptyDict
    /\ alpha = Unset
    /\ beta = Unset
    /\ plans = <<>>
    /\ scored = <<>>
    /\ ret = NoCall
    /\ best = <<>>
    /\ leave = {}
    /\ blocks = <<>>

Next ==
    \/ AskProbability(ProbTexts)
    \/ AskReturn("ask_alpha")
    \/ AskAlpha(WeightTexts)
    \/ AskBeta(WeightTexts)
    \/ GeneratePlans
    \/ ScorePlan
    \/ Sort
    \/ Report

Spec == Init /\ [][Next]_vars

----------------------------------------------------------------------------
(* ask_probabilities called on its own, with other day lists and defaults. *)

MaxAskDays == 2

AskDayPool == {12, 13, 27}

AskDayLists ==
    {ds \in UNION {[1..n -> AskDayPool] : n \in 1..MaxAskDays} :
        \A i, j \in 1..Len(ds) : i # j => ds[i] # ds[j]}

AskDefaults == {EmptyDict, main_default_probs}

InitAsk ==
    /\ pc = "ask_p"
    /\ candidate_days \in AskDayLists
    /\ default_probs \in AskDefaults
    /\ idx = 1
    /\ s = <<>>
    /\ msg = ""
    /\ p = EmptyDict
    /\ P = EmptyDict
    /\ alpha = Unset
    /\ beta = Unset
    /\ plans = <<>>
    /\ scored = <<>>
    /\ ret = NoCall
    /\ best = <<>>
    /\ leave = {}
    /\ blocks = <<>>

NextAsk ==
    \/ AskProbability(AskTexts)
    \/ AskReturn("returned")

SpecAsk == InitAsk /\ [][NextAsk]_vars

----------------------------------------------------------------------------
(* work called on an arbitrary set of leave days.                          *)

NumOutside == 2

LeaveUniverse == base_work_days \cup ((25 - NumOutside)..24)

InitWork ==
    /\ pc = "work"
    /\ leave \in SUBSET LeaveUniverse
    /\ blocks = <<>>
    /\ candidate_days = <<>>
    /\ default_probs = EmptyDict
    /\ idx = 1
    /\ s = <<>>
    /\ msg = ""
    /\ p = EmptyDict
    /\ P = EmptyDict
    /\ alpha = Unset
    /\ beta = Unset
    /\ plans = <<>>
    /\ scored = <<>>
    /\ ret = NoCall
    /\ best = <<>>

NextWork == CallWork

SpecWork == InitWork /\ [][NextWork]_vars

----------------------------------------------------------------------------
(* Lines 204-208 on arbitrary probability maps and weights, valid or not.  *)

ProbDen == 1

WeightMax == 2

ProbGrid == {Fin(i, ProbDen) : i \in 0..ProbDen}

WeightGrid == {Fin(i, 2) : i \in (-1)..WeightMax}

InitScore ==
    /\ pc = "gen"
    /\ P \in [Range(main_candidate_days) -> ProbGrid]
    /\ alpha \in WeightGrid
    /\ beta \in WeightGrid
    /\ candidate_days = main_candidate_days
    /\ default_probs = EmptyDict
    /\ idx = 1
    /\ s = <<>>
    /\ msg = ""
    /\ p = EmptyDict
    /\ plans = <<>>
    /\ scored = <<>>
    /\ ret = NoCall
    /\ best = <<>>
    /\ leave = {}
    /\ blocks = <<>>

NextScore ==
    \/ GeneratePlans
    \/ ScorePlan
    \/ Sort
    \/ Report

SpecScore == InitScore /\ [][NextScore]_vars

----------------------------------------------------------------------------
(* Properties.                                                             *)

RECURSIVE SeqSum(_)
SeqSum(xs) == IF xs = <<>> THEN 0 ELSE xs[1] + SeqSum(Tail(xs))

Positive(a) == FLt(Zero, a)

(* The plan for k: the last k days of 12..14, then the first 3-k of 24..26. *)
ExpectedPlan(k) == [i \in 1..3 |-> IF i <= k THEN 14 - k + i ELSE 23 + (i - k)]

CandidatePool == {12, 13, 14, 24, 25, 26}

RunStarts(R) == {a \in R : a - 1 \notin R}

RunEnd(R, a) == CHOOSE b \in R : b >= a /\ (a..b) \subseteq R /\ b + 1 \notin R

NthStart(R, i) ==
    CHOOSE a \in RunStarts(R) : Cardinality({x \in RunStarts(R) : x < a}) = i - 1

RunLengths(R) ==
    [i \in 1..Cardinality(RunStarts(R)) |->
        RunEnd(R, NthStart(R, i)) - NthStart(R, i) + 1]

(* C2: work(leave) is the sequence of lengths of the maximal runs of       *)
(* consecutive integers of base_work_days \ leave, in ascending day order; *)
(* the lengths sum to the number of remaining workdays, consecutive runs   *)
(* are separated by a gap, leave days outside the base set change nothing, *)
(* and the result is empty when no workday remains.                        *)
C2_MaximalRuns ==
    pc = "work_done" =>
        LET R == base_work_days \ leave
        IN  /\ blocks = RunLengths(R)
            /\ SeqSum(blocks) = Cardinality(R)
            /\ \A i \in 1..(Len(blocks) - 1) :
                  NthStart(R, i) + blocks[i] < NthStart(R, i + 1)
            /\ blocks = work(leave \cap base_work_days)
            /\ (R = {} => blocks = <<>>)

C2_Witness ==
    /\ pc = "work_done"
    /\ leave \ base_work_days # {}
    /\ Len(blocks) >= 3
    /\ \E i \in 1..Len(blocks) : blocks[i] >= 2

C2_WitnessEmpty ==
    /\ pc = "work_done"
    /\ base_work_days \subseteq leave
    /\ blocks = <<>>

(* C3: the base workdays are 9..14 and 24..28; with leave {12,13,14} the   *)
(* blocks are one of length 3 then one of length 5, and Fatigue is 2.      *)
C3_AllPreExample ==
    (pc = "work_done" /\ leave = {12, 13, 14}) =>
        /\ base_work_days = (9..14) \cup (24..28)
        /\ blocks = <<3, 5>>
        /\ Fatigue(<<12, 13, 14>>) = Fin(2, 1)

(* What the code computes for the same example.                            *)
C3_AllPreAsCoded ==
    (pc = "work_done" /\ leave = {12, 13, 14}) =>
        /\ base_work_days = (9..14) \cup (25..28)
        /\ blocks = <<3, 4>>
        /\ Fatigue(<<12, 13, 14>>) = Fin(2, 1)

(* The position at which generate_plans enumerated the plan of entry e.    *)
EnumPos(e) == CHOOSE j \in 1..Len(plans) : plans[j] = e[1]

(* C4: after the sort, scored is a permutation of the (plan, score) pairs  *)
(* of all generated plans; no entry has a score less than a later entry's  *)
(* (scores are non-increasing); two entries neither of which has the       *)
(* smaller score (a tie) stand in the order generate_plans enumerated      *)
(* them; and the recommended plan is the first entry, so no plan scores    *)
(* higher and it is the earliest enumerated among those tied with it.      *)
C4_RankedStable ==
    pc \in {"report", "done"} =>
        /\ Len(scored) = Len(plans)
        /\ \A i \in 1..Len(scored) :
              /\ scored[i][1] \in Range(plans)
              /\ scored[i][2] = score(scored[i][1], P, alpha, beta).val
        /\ \A i, j \in 1..Len(scored) : i # j => scored[i][1] # scored[j][1]
        /\ \A i, j \in 1..Len(scored) :
              i < j =>
                 /\ ~FLt(scored[i][2], scored[j][2])
                 /\ (~FLt(scored[j][2], scored[i][2]) =>
                        EnumPos(scored[i]) < EnumPos(scored[j]))
        /\ (pc = "done" =>
              /\ best = scored[1]
              /\ \A i \in 1..Len(plans) :
                    LET v == score(plans[i], P, alpha, beta).val
                    IN  /\ ~FLt(best[2], v)
                        /\ (FEq(v, best[2]) => EnumPos(best) <= i))

C4_Witness ==
    /\ pc = "done"
    /\ best[1] # plans[1]
    /\ FEq(scored[1][2], scored[2][2])
    /\ FLt(scored[4][2], scored[3][2])
    /\ scored[4][1] = plans[1]

C6_NonPositiveCostRaises ==
    (ret.plan # <<>> /\ FLe(TotalCost(ret.plan, P, alpha, beta), Zero)) => ~ret.ok

(* What the code does: only a total_cost of exactly zero raises.           *)
C6_AsCoded ==
    ret.plan # <<>> =>
        (~ret.ok <=> TotalCost(ret.plan, P, alpha, beta) = Zero)

(* C7: when score is first called by main, the probability map covers the  *)
(* 6 candidate days with values in [0,1] and both weights are strictly     *)
(* positive.                                                               *)
C7_ValidAtFirstScore ==
    (pc = "score" /\ scored = <<>>) =>
        /\ CandidatePool \subseteq DOMAIN P
        /\ \A d \in DOMAIN P : FLe(Zero, P[d]) /\ FLe(P[d], One)
        /\ Positive(alpha)
        /\ Positive(beta)

(* The part of C7 that the code does ensure.                               *)
C7_ProbabilitiesValid ==
    (pc = "score" /\ scored = <<>>) =>
        /\ CandidatePool \subseteq DOMAIN P
        /\ \A d \in DOMAIN P : FLe(Zero, P[d]) /\ FLe(P[d], One)
        /\ ~FLe(alpha, Zero)
        /\ ~FLe(beta, Zero)

MaxBlock(plan) ==
    CHOOSE m \in Range(work(Range(plan))) : \A n \in Range(work(Range(plan))) : n <= m

(* C8: of two generated plans scored with the same positive weights and    *)
(* with equal Disturb, the one whose longest remaining workday block is    *)
(* strictly shorter scores at least as high.                               *)
C8_Monotone ==
    (Positive(alpha) /\ Positive(beta)) =>
        \A i, j \in 1..Len(scored) :
            (/\ Disturb(scored[i][1], P) = Disturb(scored[j][1], P)
             /\ MaxBlock(scored[i][1]) < MaxBlock(scored[j][1])) =>
                FLe(scored[j][2], scored[i][2])

C8_Witness ==
    /\ Positive(alpha)
    /\ Positive(beta)
    /\ pc = "score"
    /\ Len(scored) = 4
    /\ \E i, j \in 1..Len(scored) :
          /\ Disturb(scored[i][1], P) = Disturb(scored[j][1], P)
          /\ MaxBlock(scored[i][1]) < MaxBlock(scored[j][1])
          /\ FLt(scored[j][2], scored[i][2])
    /\ \E i, j \in 1..Len(scored) :
          /\ Disturb(scored[i][1], P) = Disturb(scored[j][1], P)
          /\ MaxBlock(scored[i][1]) < MaxBlock(scored[j][1])
          /\ FEq(scored[j][2], scored[i][2])

C9_WitnessDisturbed ==
    /\ ret.plan # <<>>
    /\ Positive(alpha)
    /\ Positive(beta)
    /\ \E b2 \in WeightGrid : FLt(beta, b2)
    /\ Positive(Disturb(ret.plan, P))
    /\ ret.ok

(* Input lines, blanks stripped, that are malformed or out of range, and   *)
(* those that denote a value in [0,1], with the value.                     *)
BadInputs ==
    { <<"x">>, <<"1", "/", "0">>, <<"3", "/", "2">>, <<"-", "1">>, <<"n", "a", "n">>,
      <<"1", "/", "x">>, <<"i", "n", "f", "/", "i", "n", "f">>,
      <<"1", "/", "2", "/", "2">>, <<".">>, <<"1", ".", "5">>, <<"2">> }

GoodInputs == { <<"0", "/", "1">>, <<"1", ".", "0">>, <<"1">> }

GoodValue(t) == IF t = <<"0", "/", "1">> THEN Zero ELSE One

(* C10: a pass of the prompting loop on a malformed or out-of-range line   *)
(* leaves the map and the current day unchanged; a pass on an empty line   *)
(* stores the day's default (0 when it has none) and a pass on a line      *)
(* denoting a value in [0,1] stores that value, in both cases for the      *)
(* current day only, which had no entry, and moves to the next day; no     *)
(* pass raises; the function returns only when every candidate day has an  *)
(* entry, and returns the map built.                                       *)
C10_AskLoop ==
    [][ /\ pc' # "crashed"
        /\ (pc = "ask_p" /\ pc' = "ask_p") =>
              LET day == candidate_days[idx]
              IN  /\ idx <= Len(candidate_days)
                  /\ s' \in BadInputs \cup GoodInputs \cup {<<>>}
                  /\ DOMAIN p = {candidate_days[i] : i \in 1..(idx - 1)}
                  /\ (s' \in BadInputs => p' = p /\ idx' = idx /\ msg' # "")
                  /\ (s' \notin BadInputs =>
                        /\ idx' = idx + 1
                        /\ DOMAIN p' = DOMAIN p \cup {day}
                        /\ \A d \in DOMAIN p : p'[d] = p[d]
                        /\ p'[day] =
                              IF s' \in GoodInputs THEN GoodValue(s')
                              ELSE IF day \in DOMAIN default_probs
                                   THEN default_probs[day] ELSE Zero
                        /\ (s' \in GoodInputs =>
                              FLe(Zero, p'[day]) /\ FLe(p'[day], One)))
        /\ (pc = "ask_p" /\ pc' # "ask_p") =>
              /\ idx > Len(candidate_days)
              /\ DOMAIN p = Range(candidate_days)
              /\ P' = p
      ]_vars

C10_Witness ==
    /\ pc = "ask_p"
    /\ idx = 2
    /\ Len(candidate_days) = 2
    /\ s = <<"1", "/", "0">>
    /\ msg = "format"
    /\ candidate_days[1] \notin DOMAIN default_probs
    /\ DOMAIN p = {candidate_days[1]}
    /\ p[candidate_days[1]] = Zero

C10_WitnessReturned ==
    /\ pc = "returned"
    /\ Len(candidate_days) = 2
    /\ DOMAIN P = Range(candidate_days)
    /\ P[candidate_days[1]] = One
    /\ P[candidate_days[2]] = Fin(6, 31)

====
